---- MODULE Spec2Model ----
(***************************************************************************)
(* A model of the personal library manager of src/main.py: the class       *)
(* BookCollection, its backing file book_data.json and the menu loop.      *)
(*                                                                         *)
(* Text is a sequence of code points, as a Python str is, so that strip(), *)
(* lower() and the substring test "in" are computed character by           *)
(* character: "Ab " is <<65, 98, 32>>.  A book is a function from its keys *)
(* to its values: a dict loaded from the file may lack the keys year,      *)
(* genre and read.  The program writes text under the text keys and a      *)
(* boolean under read; a dict loaded from the file may hold a title or an  *)
(* author that is not text (a number, null): such a value is written as a  *)
(* one-element sequence holding a negative number, which is no code point  *)
(* (NonText), so that every value compares with every other.               *)
(*                                                                         *)
(* A handler is one action: it reads its answers, changes book_list, saves *)
(* and prints.  An exception that no handler catches ends the process      *)
(* (pc = "crashed").  Writing the file is taken to succeed.                *)
(***************************************************************************)
EXTENDS Integers, Sequences, FiniteSets

VARIABLES
    pc,            \* where the process is: start, menu, add_title, crashed, exited
    book_list,     \* self.book_list
    file_content,  \* what book_data.json holds on disk
    out,           \* what the last handler printed
    last           \* history: the last handler run other than the two views
                   \* (show_all_books, show_reading_progress): its inputs, the
                   \* collection and the file it started from, what it printed

vars == <<pc, book_list, file_content, out, last>>

-----------------------------------------------------------------------------
(* Bounds of the model *)

\* add is offered while the collection holds fewer books than this
MaxBooks == 2
\* the longest array the load specification finds in the file
MaxFileLen == 3

-----------------------------------------------------------------------------
(* Text: str.strip, str.lower, the operator "in".  A character is its code *)
(* point: the blank is 32, "1" is 49, "A" is 65, "a" is 97.                *)

\* the code points c with chr(c).isspace(), which str.strip removes: tab,
\* newline, vertical tab, form feed, carriage return (9-13), the separators
\* \x1c-\x1f and the blank (28-32), U+0085, U+00A0, U+1680, U+2000-U+200A,
\* U+2028, U+2029, U+202F, U+205F, U+3000
Whitespace ==
    {9, 10, 11, 12, 13, 28, 29, 30, 31, 32, 133, 160, 5760,
     8192, 8193, 8194, 8195, 8196, 8197, 8198, 8199, 8200, 8201, 8202,
     8232, 8233, 8239, 8287, 12288}

IsSpace(c) == c \in Whitespace

\* the simple lower-case mapping of the Unicode data str.lower uses (version
\* 14.0): <<first, last, step, delta>> maps first, first + step, ..., last
\* each to itself plus delta.  U+0130 is not here: it lowers to two characters.
LowerRules ==
    {<<65, 90, 1, 32>>, <<192, 214, 1, 32>>, <<216, 222, 1, 32>>,
     <<256, 302, 2, 1>>, <<306, 310, 2, 1>>, <<313, 327, 2, 1>>,
     <<330, 374, 2, 1>>, <<376, 376, 1, -121>>, <<377, 381, 2, 1>>,
     <<385, 385, 1, 210>>, <<386, 388, 2, 1>>, <<390, 390, 1, 206>>,
     <<391, 391, 1, 1>>, <<393, 394, 1, 205>>, <<395, 395, 1, 1>>,
     <<398, 398, 1, 79>>, <<399, 399, 1, 202>>, <<400, 400, 1, 203>>,
     <<401, 401, 1, 1>>, <<403, 403, 1, 205>>, <<404, 404, 1, 207>>,
     <<406, 406, 1, 211>>, <<407, 407, 1, 209>>, <<408, 408, 1, 1>>,
     <<412, 412, 1, 211>>, <<413, 413, 1, 213>>, <<415, 415, 1, 214>>,
     <<416, 420, 2, 1>>, <<422, 422, 1, 218>>, <<423, 423, 1, 1>>,
     <<425, 425, 1, 218>>, <<428, 428, 1, 1>>, <<430, 430, 1, 218>>,
     <<431, 431, 1, 1>>, <<433, 434, 1, 217>>, <<435, 437, 2, 1>>,
     <<439, 439, 1, 219>>, <<440, 440, 1, 1>>, <<444, 444, 1, 1>>,
     <<452, 452, 1, 2>>, <<453, 453, 1, 1>>, <<455, 455, 1, 2>>,
     <<456, 456, 1, 1>>, <<458, 458, 1, 2>>, <<459, 475, 2, 1>>,
     <<478, 494, 2, 1>>, <<497, 497, 1, 2>>, <<498, 500, 2, 1>>,
     <<502, 502, 1, -97>>, <<503, 503, 1, -56>>, <<504, 542, 2, 1>>,
     <<544, 544, 1, -130>>, <<546, 562, 2, 1>>, <<570, 570, 1, 10795>>,
     <<571, 571, 1, 1>>, <<573, 573, 1, -163>>, <<574, 574, 1, 10792>>,
     <<577, 577, 1, 1>>, <<579, 579, 1, -195>>, <<580, 580, 1, 69>>,
     <<581, 581, 1, 71>>, <<582, 590, 2, 1>>, <<880, 882, 2, 1>>,
     <<886, 886, 1, 1>>, <<895, 895, 1, 116>>, <<902, 902, 1, 38>>,
     <<904, 906, 1, 37>>, <<908, 908, 1, 64>>, <<910, 911, 1, 63>>,
     <<913, 929, 1, 32>>, <<931, 939, 1, 32>>, <<975, 975, 1, 8>>,
     <<984, 1006, 2, 1>>, <<1012, 1012, 1, -60>>, <<1015, 1015, 1, 1>>,
     <<1017, 1017, 1, -7>>, <<1018, 1018, 1, 1>>, <<1021, 1023, 1, -130>>,
     <<1024, 1039, 1, 80>>, <<1040, 1071, 1, 32>>, <<1120, 1152, 2, 1>>,
     <<1162, 1214, 2, 1>>, <<1216, 1216, 1, 15>>, <<1217, 1229, 2, 1>>,
     <<1232, 1326, 2, 1>>, <<1329, 1366, 1, 48>>, <<4256, 4293, 1, 7264>>,
     <<4295, 4295, 1, 7264>>, <<4301, 4301, 1, 7264>>,
     <<5024, 5103, 1, 38864>>, <<5104, 5109, 1, 8>>,
     <<7312, 7354, 1, -3008>>, <<7357, 7359, 1, -3008>>,
     <<7680, 7828, 2, 1>>, <<7838, 7838, 1, -7615>>, <<7840, 7934, 2, 1>>,
     <<7944, 7951, 1, -8>>, <<7960, 7965, 1, -8>>, <<7976, 7983, 1, -8>>,
     <<7992, 7999, 1, -8>>, <<8008, 8013, 1, -8>>, <<8025, 8031, 2, -8>>,
     <<8040, 8047, 1, -8>>, <<8072, 8079, 1, -8>>, <<8088, 8095, 1, -8>>,
     <<8104, 8111, 1, -8>>, <<8120, 8121, 1, -8>>, <<8122, 8123, 1, -74>>,
     <<8124, 8124, 1, -9>>, <<8136, 8139, 1, -86>>, <<8140, 8140, 1, -9>>,
     <<8152, 8153, 1, -8>>, <<8154, 8155, 1, -100>>, <<8168, 8169, 1, -8>>,
     <<8170, 8171, 1, -112>>, <<8172, 8172, 1, -7>>,
     <<8184, 8185, 1, -128>>, <<8186, 8187, 1, -126>>,
     <<8188, 8188, 1, -9>>, <<8486, 8486, 1, -7517>>,
     <<8490, 8490, 1, -8383>>, <<8491, 8491, 1, -8262>>,
     <<8498, 8498, 1, 28>>, <<8544, 8559, 1, 16>>, <<8579, 8579, 1, 1>>,
     <<9398, 9423, 1, 26>>, <<11264, 11311, 1, 48>>, <<11360, 11360, 1, 1>>,
     <<11362, 11362, 1, -10743>>, <<11363, 11363, 1, -3814>>,
     <<11364, 11364, 1, -10727>>, <<11367, 11371, 2, 1>>,
     <<11373, 11373, 1, -10780>>, <<11374, 11374, 1, -10749>>,
     <<11375, 11375, 1, -10783>>, <<11376, 11376, 1, -10782>>,
     <<11378, 11378, 1, 1>>, <<11381, 11381, 1, 1>>,
     <<11390, 11391, 1, -10815>>, <<11392, 11490, 2, 1>>,
     <<11499, 11501, 2, 1>>, <<11506, 11506, 1, 1>>, <<42560, 42604, 2, 1>>,
     <<42624, 42650, 2, 1>>, <<42786, 42798, 2, 1>>, <<42802, 42862, 2, 1>>,
     <<42873, 42875, 2, 1>>, <<42877, 42877, 1, -35332>>,
     <<42878, 42886, 2, 1>>, <<42891, 42891, 1, 1>>,
     <<42893, 42893, 1, -42280>>, <<42896, 42898, 2, 1>>,
     <<42902, 42920, 2, 1>>, <<42922, 42922, 1, -42308>>,
     <<42923, 42923, 1, -42319>>, <<42924, 42924, 1, -42315>>,
     <<42925, 42925, 1, -42305>>, <<42926, 42926, 1, -42308>>,
     <<42928, 42928, 1, -42258>>, <<42929, 42929, 1, -42282>>,
     <<42930, 42930, 1, -42261>>, <<42931, 42931, 1, 928>>,
     <<42932, 42946, 2, 1>>, <<42948, 42948, 1, -48>>,
     <<42949, 42949, 1, -42307>>, <<42950, 42950, 1, -35384>>,
     <<42951, 42953, 2, 1>>, <<42960, 42960, 1, 1>>, <<42966, 42968, 2, 1>>,
     <<42997, 42997, 1, 1>>, <<65313, 65338, 1, 32>>,
     <<66560, 66599, 1, 40>>, <<66736, 66771, 1, 40>>,
     <<66928, 66964, 2, 39>>, <<66929, 66937, 2, 39>>,
     <<66941, 66953, 2, 39>>, <<66957, 66961, 2, 39>>,
     <<66965, 66965, 1, 39>>, <<68736, 68786, 1, 64>>,
     <<71840, 71871, 1, 32>>, <<93760, 93791, 1, 32>>,
     <<125184, 125217, 1, 34>>}

\* the lower-case character of c; below 192 the only rule is that of A-Z
LowerChar(c) ==
    IF c < 192 THEN (IF 65 <= c /\ c <= 90 THEN c + 32 ELSE c)
    ELSE LET rules == {r \in LowerRules :
                          r[1] <= c /\ c <= r[2] /\ (c - r[1]) % r[3] = 0}
         IN  IF rules = {} THEN c ELSE c + (CHOOSE r \in rules : TRUE)[4]

\* the full lower-case mapping: U+0130 gives "i" and U+0307
LowerFull(c) == IF c = 304 THEN <<105, 775>> ELSE <<LowerChar(c)>>

\* the ranges first..last of the case-ignorable characters
CaseIgnorableRanges ==
    {<<39, 39>>, <<46, 46>>, <<58, 58>>, <<94, 94>>, <<96, 96>>,
     <<168, 168>>, <<173, 173>>, <<175, 175>>, <<180, 180>>, <<183, 184>>,
     <<688, 879>>, <<884, 885>>, <<890, 890>>, <<900, 901>>, <<903, 903>>,
     <<1155, 1161>>, <<1369, 1369>>, <<1375, 1375>>, <<1425, 1469>>,
     <<1471, 1471>>, <<1473, 1474>>, <<1476, 1477>>, <<1479, 1479>>,
     <<1524, 1524>>, <<1536, 1541>>, <<1552, 1562>>, <<1564, 1564>>,
     <<1600, 1600>>, <<1611, 1631>>, <<1648, 1648>>, <<1750, 1757>>,
     <<1759, 1768>>, <<1770, 1773>>, <<1807, 1807>>, <<1809, 1809>>,
     <<1840, 1866>>, <<1958, 1968>>, <<2027, 2037>>, <<2042, 2042>>,
     <<2045, 2045>>, <<2070, 2093>>, <<2137, 2139>>, <<2184, 2184>>,
     <<2192, 2193>>, <<2200, 2207>>, <<2249, 2306>>, <<2362, 2362>>,
     <<2364, 2364>>, <<2369, 2376>>, <<2381, 2381>>, <<2385, 2391>>,
     <<2402, 2403>>, <<2417, 2417>>, <<2433, 2433>>, <<2492, 2492>>,
     <<2497, 2500>>, <<2509, 2509>>, <<2530, 2531>>, <<2558, 2558>>,
     <<2561, 2562>>, <<2620, 2620>>, <<2625, 2626>>, <<2631, 2632>>,
     <<2635, 2637>>, <<2641, 2641>>, <<2672, 2673>>, <<2677, 2677>>,
     <<2689, 2690>>, <<2748, 2748>>, <<2753, 2757>>, <<2759, 2760>>,
     <<2765, 2765>>, <<2786, 2787>>, <<2810, 2815>>, <<2817, 2817>>,
     <<2876, 2876>>, <<2879, 2879>>, <<2881, 2884>>, <<2893, 2893>>,
     <<2901, 2902>>, <<2914, 2915>>, <<2946, 2946>>, <<3008, 3008>>,
     <<3021, 3021>>, <<3072, 3072>>, <<3076, 3076>>, <<3132, 3132>>,
     <<3134, 3136>>, <<3142, 3144>>, <<3146, 3149>>, <<3157, 3158>>,
     <<3170, 3171>>, <<3201, 3201>>, <<3260, 3260>>, <<3263, 3263>>,
     <<3270, 3270>>, <<3276, 3277>>, <<3298, 3299>>, <<3328, 3329>>,
     <<3387, 3388>>, <<3393, 3396>>, <<3405, 3405>>, <<3426, 3427>>,
     <<3457, 3457>>, <<3530, 3530>>, <<3538, 3540>>, <<3542, 3542>>,
     <<3633, 3633>>, <<3636, 3642>>, <<3654, 3662>>, <<3761, 3761>>,
     <<3764, 3772>>, <<3782, 3782>>, <<3784, 3789>>, <<3864, 3865>>,
     <<3893, 3893>>, <<3895, 3895>>, <<3897, 3897>>, <<3953, 3966>>,
     <<3968, 3972>>, <<3974, 3975>>, <<3981, 3991>>, <<3993, 4028>>,
     <<4038, 4038>>, <<4141, 4144>>, <<4146, 4151>>, <<4153, 4154>>,
     <<4157, 4158>>, <<4184, 4185>>, <<4190, 4192>>, <<4209, 4212>>,
     <<4226, 4226>>, <<4229, 4230>>, <<4237, 4237>>, <<4253, 4253>>,
     <<4348, 4348>>, <<4957, 4959>>, <<5906, 5908>>, <<5938, 5939>>,
     <<5970, 5971>>, <<6002, 6003>>, <<6068, 6069>>, <<6071, 6077>>,
     <<6086, 6086>>, <<6089, 6099>>, <<6103, 6103>>, <<6109, 6109>>,
     <<6155, 6159>>, <<6211, 6211>>, <<6277, 6278>>, <<6313, 6313>>,
     <<6432, 6434>>, <<6439, 6440>>, <<6450, 6450>>, <<6457, 6459>>,
     <<6679, 6680>>, <<6683, 6683>>, <<6742, 6742>>, <<6744, 6750>>,
     <<6752, 6752>>, <<6754, 6754>>, <<6757, 6764>>, <<6771, 6780>>,
     <<6783, 6783>>, <<6823, 6823>>, <<6832, 6862>>, <<6912, 6915>>,
     <<6964, 6964>>, <<6966, 6970>>, <<6972, 6972>>, <<6978, 6978>>,
     <<7019, 7027>>, <<7040, 7041>>, <<7074, 7077>>, <<7080, 7081>>,
     <<7083, 7085>>, <<7142, 7142>>, <<7144, 7145>>, <<7149, 7149>>,
     <<7151, 7153>>, <<7212, 7219>>, <<7222, 7223>>, <<7288, 7293>>,
     <<7376, 7378>>, <<7380, 7392>>, <<7394, 7400>>, <<7405, 7405>>,
     <<7412, 7412>>, <<7416, 7417>>, <<7468, 7530>>, <<7544, 7544>>,
     <<7579, 7679>>, <<8125, 8125>>, <<8127, 8129>>, <<8141, 8143>>,
     <<8157, 8159>>, <<8173, 8175>>, <<8189, 8190>>, <<8203, 8207>>,
     <<8216, 8217>>, <<8228, 8228>>, <<8231, 8231>>, <<8234, 8238>>,
     <<8288, 8292>>, <<8294, 8303>>, <<8305, 8305>>, <<8319, 8319>>,
     <<8336, 8348>>, <<8400, 8432>>, <<11388, 11389>>, <<11503, 11505>>,
     <<11631, 11631>>, <<11647, 11647>>, <<11744, 11775>>, <<11823, 11823>>,
     <<12293, 12293>>, <<12330, 12333>>, <<12337, 12341>>, <<12347, 12347>>,
     <<12441, 12446>>, <<12540, 12542>>, <<40981, 40981>>, <<42232, 42237>>,
     <<42508, 42508>>, <<42607, 42610>>, <<42612, 42621>>, <<42623, 42623>>,
     <<42652, 42655>>, <<42736, 42737>>, <<42752, 42785>>, <<42864, 42864>>,
     <<42888, 42890>>, <<42994, 42996>>, <<43000, 43001>>, <<43010, 43010>>,
     <<43014, 43014>>, <<43019, 43019>>, <<43045, 43046>>, <<43052, 43052>>,
     <<43204, 43205>>, <<43232, 43249>>, <<43263, 43263>>, <<43302, 43309>>,
     <<43335, 43345>>, <<43392, 43394>>, <<43443, 43443>>, <<43446, 43449>>,
     <<43452, 43453>>, <<43471, 43471>>, <<43493, 43494>>, <<43561, 43566>>,
     <<43569, 43570>>, <<43573, 43574>>, <<43587, 43587>>, <<43596, 43596>>,
     <<43632, 43632>>, <<43644, 43644>>, <<43696, 43696>>, <<43698, 43700>>,
     <<43703, 43704>>, <<43710, 43711>>, <<43713, 43713>>, <<43741, 43741>>,
     <<43756, 43757>>, <<43763, 43764>>, <<43766, 43766>>, <<43867, 43871>>,
     <<43881, 43883>>, <<44005, 44005>>, <<44008, 44008>>, <<44013, 44013>>,
     <<64286, 64286>>, <<64434, 64450>>, <<65024, 65039>>, <<65043, 65043>>,
     <<65056, 65071>>, <<65106, 65106>>, <<65109, 65109>>, <<65279, 65279>>,
     <<65287, 65287>>, <<65294, 65294>>, <<65306, 65306>>, <<65342, 65342>>,
     <<65344, 65344>>, <<65392, 65392>>, <<65438, 65439>>, <<65507, 65507>>,
     <<65529, 65531>>, <<66045, 66045>>, <<66272, 66272>>, <<66422, 66426>>,
     <<67456, 67461>>, <<67463, 67504>>, <<67506, 67514>>, <<68097, 68099>>,
     <<68101, 68102>>, <<68108, 68111>>, <<68152, 68154>>, <<68159, 68159>>,
     <<68325, 68326>>, <<68900, 68903>>, <<69291, 69292>>, <<69446, 69456>>,
     <<69506, 69509>>, <<69633, 69633>>, <<69688, 69702>>, <<69744, 69744>>,
     <<69747, 69748>>, <<69759, 69761>>, <<69811, 69814>>, <<69817, 69818>>,
     <<69821, 69821>>, <<69826, 69826>>, <<69837, 69837>>, <<69888, 69890>>,
     <<69927, 69931>>, <<69933, 69940>>, <<70003, 70003>>, <<70016, 70017>>,
     <<70070, 70078>>, <<70089, 70092>>, <<70095, 70095>>, <<70191, 70193>>,
     <<70196, 70196>>, <<70198, 70199>>, <<70206, 70206>>, <<70367, 70367>>,
     <<70371, 70378>>, <<70400, 70401>>, <<70459, 70460>>, <<70464, 70464>>,
     <<70502, 70508>>, <<70512, 70516>>, <<70712, 70719>>, <<70722, 70724>>,
     <<70726, 70726>>, <<70750, 70750>>, <<70835, 70840>>, <<70842, 70842>>,
     <<70847, 70848>>, <<70850, 70851>>, <<71090, 71093>>, <<71100, 71101>>,
     <<71103, 71104>>, <<71132, 71133>>, <<71219, 71226>>, <<71229, 71229>>,
     <<71231, 71232>>, <<71339, 71339>>, <<71341, 71341>>, <<71344, 71349>>,
     <<71351, 71351>>, <<71453, 71455>>, <<71458, 71461>>, <<71463, 71467>>,
     <<71727, 71735>>, <<71737, 71738>>, <<71995, 71996>>, <<71998, 71998>>,
     <<72003, 72003>>, <<72148, 72151>>, <<72154, 72155>>, <<72160, 72160>>,
     <<72193, 72202>>, <<72243, 72248>>, <<72251, 72254>>, <<72263, 72263>>,
     <<72273, 72278>>, <<72281, 72283>>, <<72330, 72342>>, <<72344, 72345>>,
     <<72752, 72758>>, <<72760, 72765>>, <<72767, 72767>>, <<72850, 72871>>,
     <<72874, 72880>>, <<72882, 72883>>, <<72885, 72886>>, <<73009, 73014>>,
     <<73018, 73018>>, <<73020, 73021>>, <<73023, 73029>>, <<73031, 73031>>,
     <<73104, 73105>>, <<73109, 73109>>, <<73111, 73111>>, <<73459, 73460>>,
     <<78896, 78904>>, <<92912, 92916>>, <<92976, 92982>>, <<92992, 92995>>,
     <<94031, 94031>>, <<94095, 94111>>, <<94176, 94177>>, <<94179, 94180>>,
     <<110576, 110579>>, <<110581, 110587>>, <<110589, 110590>>,
     <<113821, 113822>>, <<113824, 113827>>, <<118528, 118573>>,
     <<118576, 118598>>, <<119143, 119145>>, <<119155, 119170>>,
     <<119173, 119179>>, <<119210, 119213>>, <<119362, 119364>>,
     <<121344, 121398>>, <<121403, 121452>>, <<121461, 121461>>,
     <<121476, 121476>>, <<121499, 121503>>, <<121505, 121519>>,
     <<122880, 122886>>, <<122888, 122904>>, <<122907, 122913>>,
     <<122915, 122916>>, <<122918, 122922>>, <<123184, 123197>>,
     <<123566, 123566>>, <<123628, 123631>>, <<125136, 125142>>,
     <<125252, 125259>>, <<127995, 127999>>, <<917505, 917505>>,
     <<917536, 917631>>, <<917760, 917999>>}

\* the ranges first..last of the cased characters
CasedRanges ==
    {<<65, 90>>, <<97, 122>>, <<170, 170>>, <<181, 181>>, <<186, 186>>,
     <<192, 214>>, <<216, 246>>, <<248, 442>>, <<444, 447>>, <<452, 659>>,
     <<661, 696>>, <<704, 705>>, <<736, 740>>, <<837, 837>>, <<880, 883>>,
     <<886, 887>>, <<890, 893>>, <<895, 895>>, <<902, 902>>, <<904, 906>>,
     <<908, 908>>, <<910, 929>>, <<931, 1013>>, <<1015, 1153>>,
     <<1162, 1327>>, <<1329, 1366>>, <<1376, 1416>>, <<4256, 4293>>,
     <<4295, 4295>>, <<4301, 4301>>, <<4304, 4346>>, <<4349, 4351>>,
     <<5024, 5109>>, <<5112, 5117>>, <<7296, 7304>>, <<7312, 7354>>,
     <<7357, 7359>>, <<7424, 7615>>, <<7680, 7957>>, <<7960, 7965>>,
     <<7968, 8005>>, <<8008, 8013>>, <<8016, 8023>>, <<8025, 8025>>,
     <<8027, 8027>>, <<8029, 8029>>, <<8031, 8061>>, <<8064, 8116>>,
     <<8118, 8124>>, <<8126, 8126>>, <<8130, 8132>>, <<8134, 8140>>,
     <<8144, 8147>>, <<8150, 8155>>, <<8160, 8172>>, <<8178, 8180>>,
     <<8182, 8188>>, <<8305, 8305>>, <<8319, 8319>>, <<8336, 8348>>,
     <<8450, 8450>>, <<8455, 8455>>, <<8458, 8467>>, <<8469, 8469>>,
     <<8473, 8477>>, <<8484, 8484>>, <<8486, 8486>>, <<8488, 8488>>,
     <<8490, 8493>>, <<8495, 8500>>, <<8505, 8505>>, <<8508, 8511>>,
     <<8517, 8521>>, <<8526, 8526>>, <<8544, 8575>>, <<8579, 8580>>,
     <<9398, 9449>>, <<11264, 11492>>, <<11499, 11502>>, <<11506, 11507>>,
     <<11520, 11557>>, <<11559, 11559>>, <<11565, 11565>>, <<42560, 42605>>,
     <<42624, 42653>>, <<42786, 42887>>, <<42891, 42894>>, <<42896, 42954>>,
     <<42960, 42961>>, <<42963, 42963>>, <<42965, 42969>>, <<42997, 42998>>,
     <<43000, 43002>>, <<43824, 43866>>, <<43868, 43880>>, <<43888, 43967>>,
     <<64256, 64262>>, <<64275, 64279>>, <<65313, 65338>>, <<65345, 65370>>,
     <<66560, 66639>>, <<66736, 66771>>, <<66776, 66811>>, <<66928, 66938>>,
     <<66940, 66954>>, <<66956, 66962>>, <<66964, 66965>>, <<66967, 66977>>,
     <<66979, 66993>>, <<66995, 67001>>, <<67003, 67004>>, <<67456, 67456>>,
     <<67459, 67461>>, <<67463, 67504>>, <<67506, 67514>>, <<68736, 68786>>,
     <<68800, 68850>>, <<71840, 71903>>, <<93760, 93823>>,
     <<119808, 119892>>, <<119894, 119964>>, <<119966, 119967>>,
     <<119970, 119970>>, <<119973, 119974>>, <<119977, 119980>>,
     <<119982, 119993>>, <<119995, 119995>>, <<119997, 120003>>,
     <<120005, 120069>>, <<120071, 120074>>, <<120077, 120084>>,
     <<120086, 120092>>, <<120094, 120121>>, <<120123, 120126>>,
     <<120128, 120132>>, <<120134, 120134>>, <<120138, 120144>>,
     <<120146, 120485>>, <<120488, 120512>>, <<120514, 120538>>,
     <<120540, 120570>>, <<120572, 120596>>, <<120598, 120628>>,
     <<120630, 120654>>, <<120656, 120686>>, <<120688, 120712>>,
     <<120714, 120744>>, <<120746, 120770>>, <<120772, 120779>>,
     <<122624, 122633>>, <<122635, 122654>>, <<125184, 125251>>,
     <<127280, 127305>>, <<127312, 127337>>, <<127344, 127369>>}

IsCaseIgnorable(c) == \E r \in CaseIgnorableRanges : r[1] <= c /\ c <= r[2]
IsCased(c) == \E r \in CasedRanges : r[1] <= c /\ c <= r[2]

\* the nearest position from j downwards or upwards whose character is not
\* case-ignorable: 0 or Len(s) + 1 when there is none
RECURSIVE SkipBack(_, _)
SkipBack(s, j) ==
    IF j = 0 THEN 0
    ELSE IF IsCaseIgnorable(s[j]) THEN SkipBack(s, j - 1) ELSE j

RECURSIVE SkipForward(_, _)
SkipForward(s, j) ==
    IF j > Len(s) THEN j
    ELSE IF IsCaseIgnorable(s[j]) THEN SkipForward(s, j + 1) ELSE j

\* the capital sigma at position i ends a word: a cased character before it
\* and none after it, case-ignorable characters aside
final_sigma(s, i) ==
    LET j == SkipBack(s, i - 1)
        k == SkipForward(s, i + 1)
    IN  /\ j > 0
        /\ IsCased(s[j])
        /\ (k > Len(s) \/ ~IsCased(s[k]))

\* what the character at position i of s lowers to: U+03A3 to the final
\* sigma U+03C2 at the end of a word and to U+03C3 elsewhere
lower_at(s, i) ==
    IF s[i] = 931 THEN <<IF final_sigma(s, i) THEN 962 ELSE 963>>
    ELSE LowerFull(s[i])

RECURSIVE LowerFrom(_, _)
LowerFrom(s, i) ==
    IF i > Len(s) THEN <<>> ELSE lower_at(s, i) \o LowerFrom(s, i + 1)

\* every character but U+0130 and U+03A3 lowers to one character, whatever is
\* around it
lower(s) ==
    IF \A i \in 1..Len(s) : s[i] \notin {304, 931}
    THEN [i \in 1..Len(s) |-> LowerChar(s[i])]
    ELSE LowerFrom(s, 1)

RECURSIVE lstrip(_)
lstrip(s) ==
    IF s = <<>> THEN <<>>
    ELSE IF IsSpace(Head(s)) THEN lstrip(Tail(s)) ELSE s

RECURSIVE rstrip(_)
rstrip(s) ==
    IF s = <<>> THEN <<>>
    ELSE IF IsSpace(s[Len(s)]) THEN rstrip(SubSeq(s, 1, Len(s) - 1)) ELSE s

strip(s) == rstrip(lstrip(s))

\* Python's  sub in s  on text
Contains(sub, s) ==
    \E i \in 0..(Len(s) - Len(sub)) : SubSeq(s, i + 1, i + Len(sub)) = sub

\* "yes" and "N/A"
YES == <<121, 101, 115>>
NA == <<78, 47, 65>>

\* JSON values that are not text: null, false, true, the numbers 0 and 5
Null == <<-1>>
False == <<-2>>
True == <<-3>>
Number0 == <<-4>>
Number5 == <<-5>>
NonText == {Null, False, True, Number0, Number5}

\* the value of a comparison: True or False
Bool(b) == IF b THEN True ELSE False

\* Python's truth value: the empty text, None, False and 0 are false
Truthy(v) == v \notin {<<>>, Null, False, Number0}

\* isinstance(v, str): v has the method lower
IsStr(v) == v \notin NonText

-----------------------------------------------------------------------------
(* Dicts *)

HasKey(book, k) == k \in DOMAIN book

\* book.get(k, default)
Get(book, k, default) == IF HasKey(book, k) THEN book[k] ELSE default

\* book[k] = v
SetKey(book, k, v) ==
    [x \in (DOMAIN book) \cup {k} |-> IF x = k THEN v ELSE book[x]]

-----------------------------------------------------------------------------
(* The backing file.  Its content is one of:                               *)
(*   missing        no file                                                *)
(*   directory      a directory of that name                               *)
(*   no_permission  a file the process may not read                        *)
(*   not_text       bytes that do not decode as text                       *)
(*   invalid_json   text the parser rejects (the empty file included)      *)
(*                  before it meets a number too long or nesting too deep  *)
(*   huge_number_text                                                      *)
(*                  text, JSON or not, in which the parser first meets a   *)
(*                  number of more digits than int() converts (4300): the  *)
(*                  number alone, or "[" and 5000 digits, never closed     *)
(*   deep_nesting_text                                                     *)
(*                  text, JSON or not, in which the parser first meets     *)
(*                  arrays nested deeper than the recursion limit: 100000  *)
(*                  times "[", never closed                                *)
(*   non_finite     NaN, Infinity or -Infinity, which the parser takes for *)
(*                  a float                                                *)
(*   scalar         a JSON number, true, false or null                     *)
(*   string         a JSON string                                          *)
(*   object         a JSON object                                          *)
(*   array          a JSON array of entries, each a dict or something else *)
(***************************************************************************)

Missing         == [kind |-> "missing"]
Directory       == [kind |-> "directory"]
NoPermission    == [kind |-> "no_permission"]
NotText         == [kind |-> "not_text"]
InvalidJson     == [kind |-> "invalid_json"]
HugeNumberText  == [kind |-> "huge_number_text"]
DeepNestingText == [kind |-> "deep_nesting_text"]
NonFinite       == [kind |-> "non_finite"]
Scalar          == [kind |-> "scalar"]
\* "hi"
JsonString      == [kind |-> "string", chars |-> <<104, 105>>]
JsonObject      == [kind |-> "object", keys |-> <<"title", "author">>]
Array(items)    == [kind |-> "array", items |-> items]

\* the entries of an array: a dict, a number (NaN and the like included), a
\* number of more digits than int() converts (4300), arrays nested deeper
\* than the recursion limit
DictEntry(d)    == [kind |-> "dict", d |-> d]
NumberEntry     == [kind |-> "number"]
HugeNumberEntry == [kind |-> "huge_number"]
DeepArrayEntry  == [kind |-> "deep_array"]

\* the exception the parser raises on the first entry it cannot convert,
\* "none" when it converts them all
RECURSIVE ParseEntries(_)
ParseEntries(items) ==
    IF items = <<>> THEN "none"
    ELSE IF Head(items).kind = "huge_number" THEN "ValueError"
    ELSE IF Head(items).kind = "deep_array" THEN "RecursionError"
    ELSE ParseEntries(Tail(items))

\* open(self.storage_file, "r") and json.load(file): the parsed value, or the
\* exception raised
json_load(content) ==
    CASE content.kind = "missing"       -> [raised |-> "FileNotFoundError"]
      [] content.kind = "directory"     -> [raised |-> "IsADirectoryError"]
      [] content.kind = "no_permission" -> [raised |-> "PermissionError"]
      [] content.kind = "not_text"      -> [raised |-> "UnicodeDecodeError"]
      [] content.kind = "invalid_json"  -> [raised |-> "JSONDecodeError"]
      [] content.kind = "huge_number_text"  -> [raised |-> "ValueError"]
      [] content.kind = "deep_nesting_text" -> [raised |-> "RecursionError"]
      [] content.kind = "array" /\ ParseEntries(content.items) # "none" ->
            [raised |-> ParseEntries(content.items)]
      [] OTHER                          -> [raised |-> "none", value |-> content]

\* what  for book in loaded_books  iterates over, or the exception raised
Iterate(value) ==
    CASE value.kind = "array"  -> [raised |-> "none", items |-> value.items]
      [] value.kind = "object" ->
            [raised |-> "none",
             items |-> [i \in 1..Len(value.keys) |-> [kind |-> "string"]]]
      [] value.kind = "string" ->
            [raised |-> "none",
             items |-> [i \in 1..Len(value.chars) |-> [kind |-> "string"]]]
      [] OTHER -> [raised |-> "TypeError"]

\* the filter of the comprehension
EntryTitleOnly(entry) == entry.kind = "dict" /\ HasKey(entry.d, "title")
EntryAnyDict(entry) == entry.kind = "dict"
EntryValid(entry) ==
    entry.kind = "dict" /\ HasKey(entry.d, "title") /\ HasKey(entry.d, "author")

RECURSIVE FilterEntries(_)
FilterEntries(items) ==
    IF items = <<>> THEN <<>>
    ELSE IF EntryValid(Head(items))
         THEN <<Head(items).d>> \o FilterEntries(Tail(items))
         ELSE FilterEntries(Tail(items))

\* read_from_file: the new book_list, or the exception that leaves the method
read_from_file(content) ==
    LET loaded == json_load(content) IN
    IF loaded.raised \in {"FileNotFoundError", "JSONDecodeError"}
    THEN [raised |-> "none", books |-> <<>>]
    ELSE IF loaded.raised # "none"
    THEN [raised |-> loaded.raised]
    ELSE LET it == Iterate(loaded.value) IN
         IF it.raised # "none"
         THEN [raised |-> it.raised]
         ELSE [raised |-> "none", books |-> FilterEntries(it.items)]

\* json.dump(self.book_list, file, indent=4): what the file holds afterwards
json_dump_all_but_last(books) ==
    Array([i \in 1..(Len(books) - 1) |-> DictEntry(books[i])])
json_dump(books) == Array([i \in 1..Len(books) |-> DictEntry(books[i])])

save_to_file(books) == json_dump(books)

-----------------------------------------------------------------------------
(* The files of the model *)

\* {"title": "A"}, {"author": "a"}, {"foo": "bar"},
\* {"title": "B", "author": "C"}
TitleA_only  == [title |-> <<65>>]
AuthorA_only == [author |-> <<97>>]
FooBar       == [foo |-> <<98, 97, 114>>]
BookBC       == [title |-> <<66>>, author |-> <<67>>]
\* {"title": "ab", "author": "c", "year": "1", "genre": "g", "read": true}
FullBook    == [title |-> <<97, 98>>, author |-> <<99>>, year |-> <<49>>,
                genre |-> <<103>>, read |-> True]
\* {"title": 5, "author": "x"} and a book whose author and read are null
NumberTitleBook == [title |-> Number5, author |-> <<120>>]
NullAuthorBook  == [title |-> <<97, 98>>, author |-> Null, year |-> <<49>>,
                    genre |-> <<103>>, read |-> Null]
\* {"title": "A", "author": "B", "read": "no"}
ReadNoBook      == [title |-> <<65>>, author |-> <<66>>, read |-> <<110, 111>>]

FileEntries ==
    {NumberEntry, HugeNumberEntry, DeepArrayEntry, DictEntry(TitleA_only),
     DictEntry(AuthorA_only), DictEntry(FooBar), DictEntry(BookBC),
     DictEntry(FullBook), DictEntry(NumberTitleBook), DictEntry(ReadNoBook)}

SeqsUpTo(S, n) == UNION {[1..k -> S] : k \in 0..n}

NonArrayFiles ==
    {Missing, Directory, NoPermission, NotText, InvalidJson, HugeNumberText,
     DeepNestingText, NonFinite, Scalar, JsonString, JsonObject}

LoadFiles == NonArrayFiles \cup {Array(items) : items \in SeqsUpTo(FileEntries, MaxFileLen)}

ExampleFile == Array(<<DictEntry(TitleA_only), DictEntry(FooBar), DictEntry(BookBC)>>)

-----------------------------------------------------------------------------
(* What the user types *)

\* answers to "Please choose an option (1-7): ": "1", " 1", "2", ..., "7",
\* "7 ", "8" and the empty line
ChoiceInputs ==
    {<<49>>, <<32, 49>>, <<50>>, <<51>>, <<52>>, <<53>>, <<54>>,
     <<55>>, <<55, 32>>, <<56>>, <<>>}

\* answers to a title prompt of add and to "New title" of update: the empty
\* line, a tab with a vertical tab and a no-break space, " ab", "Ab"
TitleInputs == {<<>>, <<9, 11, 160>>, <<32, 97, 98>>, <<65, 98>>}

\* answers to the title prompt of delete and of update: "AB ", "a", "b"
LookupInputs == {<<65, 66, 32>>, <<97>>, <<98>>}

\* answers to the author, year, genre and read prompts:
\*   "c ", "1", "g", "yes"
\*   "", "", "", "no"
\*   U+001C, "1", "", "YES" after U+3000 and before a vertical tab
DetailInputs ==
    {<< <<99, 32>>, <<49>>, <<103>>, <<121, 101, 115>> >>,
     << <<>>, <<>>, <<>>, <<110, 111>> >>,
     << <<28>>, <<49>>, <<>>, <<12288, 89, 69, 83, 11>> >>}

\* answers to "Search by" ("1", "2") and to "Enter search term: " ("", "A",
\* "c", " ab")
SearchTypeInputs == {<<49>>, <<50>>}
SearchInputs == {<<>>, <<65>>, <<99>>, <<32, 97, 98>>}

-----------------------------------------------------------------------------
(* create_new_book *)

\* if book_title: break
TitleAcceptedAlways(book_title) == TRUE
TitleAccepted(book_title) == Truthy(book_title)

\* is_book_read = input(...).strip().lower() == "yes"
IsYes(answer) == Bool(lower(strip(answer)) = YES)

new_book(book_title, book_author, publication_year, book_genre, is_book_read) ==
    [title |-> book_title, author |-> book_author, year |-> publication_year,
     genre |-> book_genre, read |-> is_book_read]

\* self.book_list.append(new_book)
append_at_front(books, book) == <<book>> \o books
append(books, book) == Append(books, book)

-----------------------------------------------------------------------------
(* delete_book, update_book: the scan for the title *)

\* book.get("title", "").lower() == book_title.lower(): the truth value, or
\* AttributeError when the title is not text
TitleMatches(book, book_title) ==
    LET title == Get(book, "title", <<>>) IN
    IF IsStr(title)
    THEN [raised |-> "none", value |-> lower(title) = lower(book_title)]
    ELSE [raised |-> "AttributeError"]

\* for book in self.book_list: if ...: the index of the first match (0 when
\* the loop ends without one), or the exception that ends the loop
RECURSIVE ScanFrom(_, _, _)
ScanFrom(books, book_title, i) ==
    IF i > Len(books) THEN [raised |-> "none", index |-> 0]
    ELSE LET m == TitleMatches(books[i], book_title) IN
         IF m.raised # "none" THEN [raised |-> m.raised, index |-> i]
         ELSE IF m.value THEN [raised |-> "none", index |-> i]
         ELSE ScanFrom(books, book_title, i + 1)

FirstMatch(books, book_title) == ScanFrom(books, book_title, 1)

\* list.remove(book): removes the first element equal to book
RECURSIVE ListRemove(_, _)
ListRemove(books, book) ==
    IF books = <<>> THEN <<>>
    ELSE IF Head(books) = book THEN Tail(books)
    ELSE <<Head(books)>> \o ListRemove(Tail(books), book)

-----------------------------------------------------------------------------
(* update_book: the five assignments, in order *)

\* book[k] = input(...).strip() or book[k] : KeyError when the answer is
\* blank and the book has no key k
AssignOrKeep(b, k, answer) ==
    IF Truthy(strip(answer))
    THEN [raised |-> "none", book |-> SetKey(b, k, strip(answer))]
    ELSE IF HasKey(b, k)
         THEN [raised |-> "none", book |-> SetKey(b, k, b[k])]
         ELSE [raised |-> "KeyError", book |-> b]

\* the book after the assignments that ran, and the exception that stopped them
update_fields(book, new_title, new_author, new_year, new_genre, answer) ==
    LET s1 == AssignOrKeep(book, "title", new_title) IN
    IF s1.raised # "none" THEN s1 ELSE
    LET s2 == AssignOrKeep(s1.book, "author", new_author) IN
    IF s2.raised # "none" THEN s2 ELSE
    LET s3 == AssignOrKeep(s2.book, "year", new_year) IN
    IF s3.raised # "none" THEN s3 ELSE
    LET s4 == AssignOrKeep(s3.book, "genre", new_genre) IN
    IF s4.raised # "none" THEN s4 ELSE
    [raised |-> "none", book |-> SetKey(s4.book, "read", IsYes(answer))]

-----------------------------------------------------------------------------
(* find_book, show_all_books, show_reading_progress *)

\* search_text in title.lower() or search_text in author.lower(): the truth
\* value, or AttributeError; the author is looked at only when the title does
\* not contain the text
MatchesSearch(book, search_type, search_text) ==
    LET title == Get(book, "title", <<>>)
        author == Get(book, "author", <<>>)
    IN  IF ~IsStr(title) THEN [raised |-> "AttributeError"]
        ELSE IF Contains(search_text, lower(title))
        THEN [raised |-> "none", value |-> TRUE]
        ELSE IF ~IsStr(author) THEN [raised |-> "AttributeError"]
        ELSE [raised |-> "none", value |-> Contains(search_text, lower(author))]

\* the comprehension: the books kept, or the exception that ends it
RECURSIVE found_books(_, _, _)
found_books(books, search_type, search_text) ==
    IF books = <<>> THEN [raised |-> "none", books |-> <<>>]
    ELSE LET m == MatchesSearch(Head(books), search_type, search_text) IN
         IF m.raised # "none" THEN [raised |-> m.raised]
         ELSE LET rest == found_books(Tail(books), search_type, search_text) IN
              IF rest.raised # "none" THEN rest
              ELSE [raised |-> "none",
                    books |-> IF m.value THEN <<Head(books)>> \o rest.books
                              ELSE rest.books]

\* one printed line: index, title, author, year, genre, reading status
FormatBook(index, book) ==
    [index |-> index,
     title |-> Get(book, "title", NA),
     author |-> Get(book, "author", NA),
     year |-> Get(book, "year", NA),
     genre |-> Get(book, "genre", NA),
     status |-> IF Truthy(Get(book, "read", False)) THEN "Read" ELSE "Unread"]

\* for index, book in enumerate(books, 1): print(...)
PrintBooks(books) == [i \in 1..Len(books) |-> FormatBook(i, books[i])]

\* sum(1 for book in self.book_list if book.get("read", False))
completed_books(books) ==
    Cardinality({i \in 1..Len(books) : Truthy(Get(books[i], "read", False))})

(* completed_books / total_books * 100 in the arithmetic of float (binary64, *)
(* round to nearest, ties to even) and its print with two decimals.  A      *)
(* number is written by its bits, the most significant first; a float is    *)
(* m * 2^-e with m of 53 bits.                                              *)

MantissaBits == 53

Zeros(k) == IF k > 0 THEN [i \in 1..k |-> 0] ELSE <<>>

\* bits plus one
RECURSIVE Increment(_)
Increment(bits) ==
    IF bits = <<>> THEN <<1>>
    ELSE LET front == SubSeq(bits, 1, Len(bits) - 1) IN
         IF bits[Len(bits)] = 0 THEN Append(front, 1)
         ELSE Append(Increment(front), 0)

\* the bits of the natural number n
RECURSIVE NatToBits(_)
NatToBits(n) ==
    IF n = 0 THEN <<>> ELSE Append(NatToBits(n \div 2), n % 2)

\* the bits of: the first i bits of bits, times 100, plus carry
RECURSIVE TimesHundredFrom(_, _, _)
TimesHundredFrom(bits, i, carry) ==
    IF i = 0 THEN NatToBits(carry)
    ELSE IF (100 * bits[i] + carry) % 2 = 0
         THEN Append(TimesHundredFrom(bits, i - 1, (100 * bits[i] + carry) \div 2), 0)
         ELSE Append(TimesHundredFrom(bits, i - 1, (100 * bits[i] + carry) \div 2), 1)

\* bits times 100
TimesHundred(bits) == TimesHundredFrom(bits, Len(bits), 0)

RECURSIVE BitsToNat(_)
BitsToNat(bits) ==
    IF bits = <<>> THEN 0
    ELSE 2 * BitsToNat(SubSeq(bits, 1, Len(bits) - 1)) + bits[Len(bits)]

\* bits, whose first bit is 1, rounded to its first keep bits, to nearest and
\* ties to even: the bits kept and how many were dropped
RoundBits(bits, keep) ==
    LET head == SubSeq(bits, 1, keep)
        tail == SubSeq(bits, keep + 1, Len(bits))
        up == /\ tail[1] = 1
              /\ head[keep] = 1 \/ \E i \in 2..Len(tail) : tail[i] = 1
        m == IF up THEN Increment(head) ELSE head
    IN  IF Len(m) > keep
        THEN [m |-> SubSeq(m, 1, keep), dropped |-> Len(tail) + 1]
        ELSE [m |-> m, dropped |-> Len(tail)]

\* r doubled until it is at least n, and how often it was doubled
RECURSIVE Scale(_, _, _)
Scale(r, n, e) ==
    IF r >= n THEN [r |-> r, e |-> e] ELSE Scale(2 * r, n, e + 1)

\* the first k binary digits of r / n, for n <= r < 2n, and a last digit that
\* is 1 when the division leaves a remainder
RECURSIVE Digits(_, _, _)
Digits(r, n, k) ==
    IF k = 0 THEN <<IF r > 0 THEN 1 ELSE 0>>
    ELSE IF r >= n THEN <<1>> \o Digits(2 * (r - n), n, k - 1)
    ELSE <<0>> \o Digits(2 * r, n, k - 1)

\* completed / total for 0 < completed <= total
float_div(completed, total) ==
    LET s == Scale(completed, total, 0)
        q == RoundBits(Digits(s.r, total, MantissaBits + 1), MantissaBits)
    IN  [m |-> q.m, e |-> s.e + MantissaBits + 1 - q.dropped]

\* x * 100
float_times_hundred(x) ==
    LET p == RoundBits(TimesHundred(x.m), MantissaBits) IN
    [m |-> p.m, e |-> x.e - p.dropped]

\* f"{x:.2f}" in hundredths: the integer nearest to x * 100, ties to even
format_2f(x) ==
    LET product == TimesHundred(x.m)
        bits == Zeros(x.e + 1 - Len(product)) \o product
        head == SubSeq(bits, 1, Len(bits) - x.e)
        tail == SubSeq(bits, Len(bits) - x.e + 1, Len(bits))
        up == /\ tail[1] = 1
              /\ head[Len(head)] = 1 \/ \E i \in 2..Len(tail) : tail[i] = 1
    IN  BitsToNat(head) + (IF up THEN 1 ELSE 0)

\* completion_rate as "Reading progress: {completion_rate:.2f}%" prints it, in
\* hundredths of a percent
completion_rate(books) ==
    LET total_books == Len(books)
        completed == completed_books(books)
    IN  IF total_books > 0 /\ completed > 0
        THEN format_2f(float_times_hundred(float_div(completed, total_books)))
        ELSE 0

-----------------------------------------------------------------------------
(* start_application: one handler per menu choice *)

\* the session starts with one of these in the file
SessionFiles ==
    NonArrayFiles \cup
    {ExampleFile,
     Array(<<>>),
     Array(<<DictEntry(FullBook), NumberEntry, DictEntry(BookBC)>>),
     Array(<<DictEntry(ReadNoBook), DictEntry(NumberTitleBook)>>),
     Array(<<DictEntry(NumberTitleBook), DictEntry(FullBook), DictEntry(FullBook)>>),
     Array(<<DictEntry(NullAuthorBook)>>),
     Array(<<DictEntry(FullBook), HugeNumberEntry>>),
     Array(<<DeepArrayEntry, HugeNumberEntry>>)}

\* the choices the answers amount to
Choices == {strip(raw) : raw \in ChoiceInputs}

Chosen(c) == c \in Choices

Message(text) == [kind |-> "message", text |-> text]
Error(raised) == [kind |-> "error", error |-> raised]

\* the record of a handler: its inputs, the state it started from, whether it
\* called save_to_file and what it printed
Did(op, args, wrote, printed) ==
    [op |-> op, args |-> args, pre |-> book_list, prefile |-> file_content,
     at |-> pc, wrote |-> wrote, printed |-> printed]

\* choice 1, a title prompt answered with nothing but blanks: the loop of
\* create_new_book prompts again
create_new_book_retry ==
    /\ \/ pc = "menu" /\ Chosen(<<49>>)
       \/ pc = "add_title"
    /\ Len(book_list) < MaxBooks
    /\ out' = Message("Title cannot be empty. Please try again.")
    /\ \E raw_title \in TitleInputs :
        /\ ~TitleAccepted(strip(raw_title))
        /\ last' = Did("add_retry", <<raw_title>>, FALSE, out')
    /\ pc' = "add_title"
    /\ UNCHANGED <<book_list, file_content>>

\* choice 1, the title prompt answered and then the four other prompts
create_new_book ==
    /\ \/ pc = "menu" /\ Chosen(<<49>>)
       \/ pc = "add_title"
    /\ Len(book_list) < MaxBooks
    /\ out' = Message("Book added successfully!")
    /\ \E raw_title \in TitleInputs :
        /\ TitleAccepted(strip(raw_title))
        /\ \E d \in DetailInputs :
            /\ book_list' = append(book_list,
                                   new_book(strip(raw_title), strip(d[1]),
                                            strip(d[2]), strip(d[3]),
                                            IsYes(d[4])))
            /\ last' = Did("add", <<raw_title, d[1], d[2], d[3], d[4]>>, TRUE,
                           out')
    /\ file_content' = save_to_file(book_list')
    /\ pc' = "menu"

\* choice 2
delete_book ==
    /\ pc = "menu" /\ Chosen(<<50>>)
    /\ \E raw_title \in LookupInputs :
        LET book_title == strip(raw_title)
            scan == FirstMatch(book_list, book_title)
        IN  IF scan.raised # "none"
            THEN /\ out' = Error(scan.raised)
                 /\ last' = Did("delete", <<raw_title>>, FALSE, out')
                 /\ pc' = "crashed"
                 /\ UNCHANGED <<book_list, file_content>>
            ELSE IF scan.index > 0
            THEN /\ book_list' = ListRemove(book_list, book_list[scan.index])
                 /\ file_content' = save_to_file(book_list')
                 /\ out' = Message("Book removed successfully!")
                 /\ last' = Did("delete", <<raw_title>>, TRUE, out')
                 /\ pc' = "menu"
            ELSE /\ out' = Message("Book not found")
                 /\ last' = Did("delete", <<raw_title>>, FALSE, out')
                 /\ pc' = "menu"
                 /\ UNCHANGED <<book_list, file_content>>

\* choice 3
find_book ==
    /\ pc = "menu" /\ Chosen(<<51>>)
    /\ \E search_type \in SearchTypeInputs, raw_text \in SearchInputs :
        LET found == found_books(book_list, search_type, lower(raw_text)) IN
        /\ out' = IF found.raised # "none" THEN Error(found.raised)
                  ELSE IF found.books # <<>>
                  THEN [kind |-> "matches", books |-> found.books,
                        lines |-> PrintBooks(found.books)]
                  ELSE Message("No matching books found.")
        /\ pc' = IF found.raised # "none" THEN "crashed" ELSE "menu"
        /\ last' = Did("find", <<search_type, raw_text>>, FALSE, out')
    /\ UNCHANGED <<book_list, file_content>>

\* choice 4, the scan ends without a match: no book has the title, or a title
\* that is not text ends the scan; the other prompts are not reached
update_book_unmatched ==
    /\ pc = "menu" /\ Chosen(<<52>>)
    /\ \E raw_title \in LookupInputs :
        LET scan == FirstMatch(book_list, strip(raw_title)) IN
        /\ scan.raised # "none" \/ scan.index = 0
        /\ out' = IF scan.raised # "none" THEN Error(scan.raised)
                  ELSE Message("Book not found!")
        /\ pc' = IF scan.raised # "none" THEN "crashed" ELSE "menu"
        /\ last' = Did("update", <<raw_title>>, FALSE, out')
    /\ UNCHANGED <<book_list, file_content>>

\* choice 4, a book has the title: the five prompts and their assignments
update_book ==
    /\ pc = "menu" /\ Chosen(<<52>>)
    /\ \E raw_title \in LookupInputs :
        LET scan == FirstMatch(book_list, strip(raw_title)) IN
        /\ scan.raised = "none" /\ scan.index > 0
        /\ \E new_title \in TitleInputs, d \in DetailInputs :
            LET i == scan.index
                r == update_fields(book_list[i], new_title, d[1], d[2],
                                   d[3], d[4])
                args == <<raw_title, new_title, d[1], d[2], d[3], d[4]>>
            IN  /\ book_list' = [book_list EXCEPT ![i] = r.book]
                /\ IF r.raised = "none"
                   THEN /\ file_content' = save_to_file(book_list')
                        /\ out' = Message("Book updated successfully!")
                        /\ last' = Did("update", args, TRUE, out')
                        /\ pc' = "menu"
                   ELSE /\ out' = Error(r.raised)
                        /\ last' = Did("update", args, FALSE, out')
                        /\ pc' = "crashed"
                        /\ UNCHANGED file_content

\* choice 5
show_all_books ==
    /\ pc = "menu" /\ Chosen(<<53>>)
    /\ out' = IF book_list = <<>>
              THEN Message("Your collection is empty.")
              ELSE [kind |-> "listing", lines |-> PrintBooks(book_list)]
    /\ UNCHANGED <<pc, book_list, file_content, last>>

\* choice 6
show_reading_progress ==
    /\ pc = "menu" /\ Chosen(<<54>>)
    /\ out' = [kind |-> "progress", total_books |-> Len(book_list),
               completion_rate |-> completion_rate(book_list)]
    /\ UNCHANGED <<pc, book_list, file_content, last>>

\* choice 7
exit_application ==
    /\ pc = "menu" /\ Chosen(<<55>>)
    /\ file_content' = save_to_file(book_list)
    /\ out' = Message("Thank you for using Book Collection Manager. Goodbye!")
    /\ last' = Did("exit", <<>>, TRUE, out')
    /\ pc' = "exited"
    /\ UNCHANGED book_list

\* anything else
invalid_choice ==
    /\ pc = "menu"
    /\ out' = Message("Invalid choice. Please try again.")
    /\ \E raw \in ChoiceInputs :
        /\ strip(raw) \notin {<<49>>, <<50>>, <<51>>, <<52>>, <<53>>,
                              <<54>>, <<55>>}
        /\ last' = Did("invalid", <<raw>>, FALSE, out')
    /\ UNCHANGED <<pc, book_list, file_content>>

-----------------------------------------------------------------------------
(* BookCollection(): __init__ calls read_from_file *)

Construct ==
    /\ pc = "start"
    /\ LET r == read_from_file(file_content) IN
       IF r.raised = "none"
       THEN /\ pc' = "menu"
            /\ book_list' = r.books
            /\ out' = [kind |-> "none"]
       ELSE /\ pc' = "crashed"
            /\ book_list' = <<>>
            /\ out' = Error(r.raised)
    /\ last' = Did("load", <<>>, FALSE, out')
    /\ UNCHANGED file_content

NoHandler ==
    [op |-> "none", args |-> <<>>, pre |-> <<>>, prefile |-> file_content,
     at |-> "start", wrote |-> FALSE, printed |-> [kind |-> "none"]]

InitLoad ==
    /\ pc = "start"
    /\ book_list = <<>>
    /\ file_content \in LoadFiles
    /\ out = [kind |-> "none"]
    /\ last = NoHandler

NextLoad == Construct

SpecLoad == InitLoad /\ [][NextLoad]_vars

Init ==
    /\ pc = "start"
    /\ book_list = <<>>
    /\ file_content \in SessionFiles
    /\ out = [kind |-> "none"]
    /\ last = NoHandler

Next ==
    \/ Construct
    \/ create_new_book_retry
    \/ create_new_book
    \/ delete_book
    \/ find_book
    \/ update_book_unmatched
    \/ update_book
    \/ show_all_books
    \/ show_reading_progress
    \/ exit_application
    \/ invalid_choice

Spec == Init /\ [][Next]_vars

-----------------------------------------------------------------------------
(* What the claims speak of, stated without the operators of the handlers *)

\* s and t are the same text up to the case of their letters
SameIgnoringCase(s, t) == lower(s) = lower(t)

\* term occurs in s up to the case of the letters
OccursIgnoringCase(term, s) ==
    LET ls == lower(s)
        lt == lower(term)
    IN  \E k \in 0..Len(ls) :
            /\ k + Len(lt) <= Len(ls)
            /\ \A j \in 1..Len(lt) : ls[k + j] = lt[j]

\* the file is there and parses to an array
ParsesToArray(content) ==
    /\ content.kind = "array"
    /\ \A i \in 1..Len(content.items) :
          content.items[i].kind \notin {"huge_number", "deep_array"}

\* v is text, not a number or null
IsText(v) == v \notin NonText

\* every title and every author of books is text
AllText(books) ==
    \A i \in 1..Len(books) : IsText(books[i].title) /\ IsText(books[i].author)

\* the positions of the books whose title is the one typed
TitledPositions(books, raw_title) ==
    {i \in 1..Len(books) :
        /\ IsText(books[i].title)
        /\ SameIgnoringCase(books[i].title, strip(raw_title))}

Least(S) == CHOOSE i \in S : \A j \in S : i <= j

\* how many members of S are at most i
Rank(S, i) == Cardinality({j \in S : j <= i})

\* books is the books of all at the positions S, in the order of all
IsSelection(books, all, S) ==
    /\ Len(books) = Cardinality(S)
    /\ \A i \in S : books[Rank(S, i)] = all[i]

WithoutPosition(books, i) ==
    [j \in 1..(Len(books) - 1) |-> IF j < i THEN books[j] ELSE books[j + 1]]

FiveKeys == {"title", "author", "year", "genre", "read"}

\* the book the answers to the prompts of add describe
BookTyped(args) ==
    [title |-> strip(args[1]), author |-> strip(args[2]), year |-> strip(args[3]),
     genre |-> strip(args[4]), read |-> Bool(lower(strip(args[5])) = YES)]

Reloaded == read_from_file(file_content)

\* a mutation that ran to its end: an add, a delete that found its title, an
\* update that found its title
MutationCompleted ==
    /\ pc = "menu"
    /\ \/ last.op = "add"
       \/ /\ last.op \in {"delete", "update"}
          /\ TitledPositions(last.pre, last.args[1]) # {}

-----------------------------------------------------------------------------
(* The claims *)

\* C1: after every completed mutation (an add, a delete that removed a book,
\* an update that matched a book) a reload of the file yields the books of the
\* in-memory collection, in the same order.
C1_FileHoldsCollection ==
    MutationCompleted =>
        /\ last.wrote
        /\ Reloaded.raised = "none"
        /\ Reloaded.books = book_list

C1_Witness ==
    /\ MutationCompleted
    /\ last.op = "update"
    /\ Len(book_list) >= 2
    /\ book_list # last.pre
    /\ file_content # last.prefile

\* C2: an add of a book with non-empty title and author, followed by the
\* listing, shows the old collection unchanged and one new entry equal to the
\* input at the end, and a reload of the file holds the same entry there.
C2_AddThenList ==
    (/\ last.op = "add"
     /\ strip(last.args[1]) # <<>>
     /\ strip(last.args[2]) # <<>>
     /\ out.kind = "listing") =>
        LET n == Len(last.pre)
            expected == [i \in 1..(n + 1) |->
                            IF i <= n THEN last.pre[i] ELSE BookTyped(last.args)]
        IN  /\ book_list = expected
            /\ Len(out.lines) = n + 1
            /\ \A i \in 1..(n + 1) : out.lines[i] = FormatBook(i, expected[i])
            /\ Reloaded.raised = "none"
            /\ Len(Reloaded.books) = n + 1
            /\ Reloaded.books[n + 1] = BookTyped(last.args)

C2_Witness ==
    /\ last.op = "add"
    /\ strip(last.args[2]) # <<>>
    /\ last.args[1] # strip(last.args[1])
    /\ Len(last.pre) >= 1
    /\ last.pre[1] # BookTyped(last.args)
    /\ out.kind = "listing"

\* the value update leaves under a text key: the answer when it is not blank,
\* otherwise what the book held (nothing when it had no such key)
KeptOrTyped(old, new, k, answer) ==
    IF strip(answer) # <<>>
    THEN k \in DOMAIN new /\ new[k] = strip(answer)
    ELSE IF k \in DOMAIN old
         THEN k \in DOMAIN new /\ new[k] = old[k]
         ELSE k \notin DOMAIN new

\* C3: an update whose title is that of exactly one book leaves the size of
\* the collection unchanged, gives that book the answers that are not blank,
\* keeps its prior value where the answer is blank, sets read to whether the
\* answer is "yes", and leaves every other book and the order unchanged.
C3_UpdateOneMatch ==
    (/\ last.op = "update"
     /\ Cardinality(TitledPositions(last.pre, last.args[1])) = 1) =>
        LET m == Least(TitledPositions(last.pre, last.args[1]))
            old == last.pre[m]
            new == book_list[m]
        IN  /\ pc = "menu"
            /\ Len(book_list) = Len(last.pre)
            /\ \A i \in 1..Len(last.pre) : i # m => book_list[i] = last.pre[i]
            /\ KeptOrTyped(old, new, "title", last.args[2])
            /\ KeptOrTyped(old, new, "author", last.args[3])
            /\ KeptOrTyped(old, new, "year", last.args[4])
            /\ KeptOrTyped(old, new, "genre", last.args[5])
            /\ "read" \in DOMAIN new
            /\ new.read = Bool(lower(strip(last.args[6])) = YES)

\* C4: a delete or an update whose title is that of no book reports that the
\* book was not found and changes nothing: the collection is as before and the
\* file is not written.
C4_NotFoundChangesNothing ==
    (/\ last.op \in {"delete", "update"}
     /\ TitledPositions(last.pre, last.args[1]) = {}) =>
        /\ pc = "menu"
        /\ book_list = last.pre
        /\ file_content = last.prefile
        /\ ~last.wrote
        /\ last.printed = IF last.op = "delete"
                          THEN Message("Book not found")
                          ELSE Message("Book not found!")

\* C4 for a collection whose titles and authors are all text
C4_WhenAllText == AllText(last.pre) => C4_NotFoundChangesNothing

C4_Witness ==
    /\ last.op = "delete"
    /\ TitledPositions(last.pre, last.args[1]) = {}
    /\ AllText(last.pre)
    /\ \E i \in 1..Len(last.pre) :
          OccursIgnoringCase(strip(last.args[1]), last.pre[i].title)
    /\ last.prefile # save_to_file(last.pre)

\* C5: load never fails: with the file missing or malformed (not parsable, or
\* parsable but not a sequence of records) the collection is empty and the
\* session starts.
C5_LoadNeverFails ==
    (last.op = "load" /\ ~ParsesToArray(file_content)) =>
        /\ pc = "menu"
        /\ book_list = <<>>
        /\ out.kind # "error"

\* C6: when the file parses to an array, load keeps the entries that are
\* mappings with a title key and an author key, in the order of the file, and
\* no other; of [{title A}, {foo bar}, {title B, author C}] it keeps the last.
C6_LoadKeepsValidEntries ==
    (last.op = "load" /\ ParsesToArray(file_content)) =>
        LET items == file_content.items
            valid == {i \in 1..Len(items) :
                        /\ items[i].kind = "dict"
                        /\ {"title", "author"} \subseteq DOMAIN items[i].d}
        IN  /\ pc = "menu"
            /\ Len(book_list) = Cardinality(valid)
            /\ \A i \in valid : book_list[Rank(valid, i)] = items[i].d
            /\ file_content = ExampleFile => book_list = <<BookBC>>

C6_Witness ==
    /\ last.op = "load"
    /\ pc = "menu"
    /\ file_content = ExampleFile
    /\ book_list = <<BookBC>>

\* C7: in every state of a session every book of the collection has a title
\* key and an author key.
C7_TitleAndAuthorPresent ==
    \A i \in 1..Len(book_list) : {"title", "author"} \subseteq DOMAIN book_list[i]

C7_Witness ==
    /\ pc = "menu"
    /\ last.op = "update"
    /\ last.wrote
    /\ \E i \in 1..Len(book_list) : DOMAIN book_list[i] = {"title", "author"}
    /\ \E i \in 1..Len(book_list) : DOMAIN book_list[i] = FiveKeys

\* C8: when several books have the title typed, delete removes the first of
\* them and no other: the collection is one shorter, the other books (later
\* ones of the same title included) keep their order, and the file is saved.
C8_DeleteRemovesFirstMatch ==
    (/\ last.op = "delete"
     /\ Cardinality(TitledPositions(last.pre, last.args[1])) >= 2) =>
        LET m == Least(TitledPositions(last.pre, last.args[1])) IN
        /\ pc = "menu"
        /\ Len(book_list) = Len(last.pre) - 1
        /\ book_list = WithoutPosition(last.pre, m)
        /\ last.wrote
        /\ Reloaded.raised = "none"
        /\ Reloaded.books = book_list
        /\ last.printed = Message("Book removed successfully!")

\* C8 for a collection whose titles and authors are all text
C8_WhenAllText == AllText(last.pre) => C8_DeleteRemovesFirstMatch

C8_Witness ==
    /\ last.op = "delete"
    /\ LET S == TitledPositions(last.pre, last.args[1]) IN
       /\ Cardinality(S) >= 2
       /\ \E i \in S, j \in S : last.pre[i] # last.pre[j]
       /\ \E i \in S : book_list = <<last.pre[i]>>

\* C9: a search returns the books whose title or author contains the term up
\* to case, all of them and in the order of the collection, and changes
\* neither the collection nor the file; that no book matches is reported and is
\* no error.
C9_SearchReturnsMatches ==
    last.op = "find" =>
        LET term == last.args[2]
            hits == {i \in 1..Len(last.pre) :
                        \/ /\ IsText(last.pre[i].title)
                           /\ OccursIgnoringCase(term, last.pre[i].title)
                        \/ /\ IsText(last.pre[i].author)
                           /\ OccursIgnoringCase(term, last.pre[i].author)}
        IN  /\ pc = "menu"
            /\ book_list = last.pre
            /\ file_content = last.prefile
            /\ ~last.wrote
            /\ hits = {} => last.printed = Message("No matching books found.")
            /\ hits # {} =>
                  /\ last.printed.kind = "matches"
                  /\ IsSelection(last.printed.books, last.pre, hits)

\* C9 for a collection whose titles and authors are all text
C9_WhenAllText == AllText(last.pre) => C9_SearchReturnsMatches

C9_Witness ==
    /\ last.op = "find"
    /\ last.args[2] = <<65>>
    /\ Len(last.pre) = 2
    /\ last.pre[1].title # <<97, 98>>
    /\ last.pre[2].title = <<97, 98>>
    /\ last.printed.kind = "matches"
    /\ last.printed.books = <<last.pre[2]>>

\* C10: an add whose title is empty or blank is rejected before anything
\* changes: the collection and the file stay as they are and the title is asked
\* again; the book an add stores has a non-empty title and the five keys, with
\* read a boolean.
C10_AddValidatesTitle ==
    /\ last.op = "add_retry" =>
          /\ strip(last.args[1]) = <<>>
          /\ pc = "add_title"
          /\ book_list = last.pre
          /\ file_content = last.prefile
          /\ ~last.wrote
    /\ last.op = "add" =>
          /\ strip(last.args[1]) # <<>>
          /\ Len(book_list) = Len(last.pre) + 1
          /\ LET stored == book_list[Len(book_list)] IN
             /\ DOMAIN stored = FiveKeys
             /\ stored.title # <<>>
             /\ stored.read \in {True, False}
             /\ Reloaded.books[Len(book_list)] = stored

C10_Witness ==
    /\ last.op = "add"
    /\ last.at = "add_title"
    /\ Len(last.pre) >= 1
    /\ strip(last.args[1]) # last.args[1]

====
